---------------------------- MODULE Spec2Model ----------------------------
(***************************************************************************)
(* State-machine model of lumbermixalot (commonmixalot.py, mainmixalot.py): *)
(* the bone-hierarchy operations, the Convert generator, output path        *)
(* resolution and texture extraction.                                       *)
(*                                                                          *)
(* Text is modelled as a sequence of atoms.  The atoms ".", "/" and " " are *)
(* the characters os.path and str.strip look at; every other atom ("a",     *)
(* "out", "fbx", "Motions", "Actor", ...) is a non-empty word holding none  *)
(* of these characters.  Python's None is the one-atom text None.           *)
(***************************************************************************)
EXTENDS Integers, Sequences, FiniteSets, TLC

VARIABLES
    \* ---- armature (bpy.types.Object of type ARMATURE) ----
    bones,        \* obj.data.bones / edit_bones: sequence of [name, parent]; parent 0 is None
    mode,         \* interaction mode set by bpy.ops.object.mode_set
    editEntered,  \* TRUE once mode_set(mode='EDIT') has been executed
    hist,         \* the calls made so far: [op, a, b, err]; for a path or export
                  \* function a is the file exported (or the path returned), b the
                  \* directory made
    bones0,       \* the hierarchy before the first call
    args,         \* [rootBoneName, hipBoneName] the calls are made with
    rotation,     \* obj.rotation_euler: "rotated", or "zero" once it has been applied
    \* ---- Convert generator (mainmixalot.Convert) ----
    pc,           \* position of the generator
    children,     \* armatureObj.children: sequence of object types
    isActor,      \* local isActor (assigned at line 154), or the isActor argument of a call
    cfg,          \* arguments: [fbxFilename, fbxOutputPath, append, unpack, hipBoneName, rootBoneName]
    fsys,         \* file system: [dirs, canCreate]; dirs holds the normalised paths of the
                  \* directories that exist, canCreate tells whether os.makedirs succeeds
    outputFilename, \* local outputFilename (Unset before line 158)
    events,       \* Status messages yielded so far
    trace,        \* effects performed so far, in order
    iter,         \* the conversion iterator: [kind, left, hipBoneName, rootBoneName]
    \* ---- one call of a path or export function ----
    call,         \* [fn, ret, made, err, exported, fs] of the last call ("none" before);
                  \* fs is what os.path.exists and os.makedirs answered for its directory
    \* ---- images (bpy.data.images) ----
    images,       \* sequence of [has_data, filepath, filepath_raw]
    images0,      \* the images before the last call that read them (as an import left them)
    saved,        \* the files image.save() has written so far: a set of paths
    texcall       \* [state, err, dir, out, prefix, tfs, written] of the texture extraction
                  \* of the last call; written is what it saved, in order: [img, path, raw]

varsBones == <<bones, mode, editEntered, hist, bones0, args, rotation>>
varsConv  == <<pc, children, isActor, cfg, fsys, outputFilename, events, trace, iter>>
varsConvLocal == <<pc, children, isActor, cfg, outputFilename, events, trace, iter>>
varsCall  == <<call>>
varsTex   == <<images, images0, saved, texcall>>
vars      == <<varsBones, varsConv, varsCall, varsTex>>

-----------------------------------------------------------------------------
(* Bounds of the model *)
MaxNameLen == 3     \* atoms in a file name
MaxDirLen  == 3     \* atoms in an output directory
MaxBones   == 3     \* bones in a hierarchy
MaxCalls   == 2     \* calls made on a hierarchy
MaxChildren == 2    \* child objects of the armature
MaxImages  == 2     \* images in bpy.data.images

-----------------------------------------------------------------------------
(* Text *)
None  == <<"<None>">>
Unset == <<"<unset>">>
DOT == "."
SEP == "/"
WS  == " "

SeqsUpTo(S, n) == UNION {[1..k -> S] : k \in 0..n}

\* str.strip(): drop leading and trailing whitespace
RECURSIVE LStrip(_)
LStrip(s) == IF s # <<>> /\ Head(s) = WS THEN LStrip(Tail(s)) ELSE s
RECURSIVE RStrip(_)
RStrip(s) == IF s # <<>> /\ s[Len(s)] = WS THEN RStrip(SubSeq(s, 1, Len(s) - 1)) ELSE s
Strip(s) == RStrip(LStrip(s))

\* str.rfind(c) as a 1-based position, 0 when absent
RECURSIVE RFindFrom(_, _, _)
RFindFrom(s, c, i) == IF i = 0 THEN 0 ELSE IF s[i] = c THEN i ELSE RFindFrom(s, c, i - 1)
RFind(s, c) == RFindFrom(s, c, Len(s))

\* genericpath._splitext: the extension starts at the last dot of the last
\* component, unless only dots precede it there
RECURSIVE OnlyDots(_, _, _)
OnlyDots(s, i, j) == IF i >= j THEN TRUE ELSE IF s[i] # DOT THEN FALSE ELSE OnlyDots(s, i + 1, j)
Splitext(p) ==
    LET sepIndex == RFind(p, SEP)
        dotIndex == RFind(p, DOT)
    IN  IF dotIndex > sepIndex /\ ~OnlyDots(p, sepIndex + 1, dotIndex)
        THEN <<SubSeq(p, 1, dotIndex - 1), SubSeq(p, dotIndex, Len(p))>>
        ELSE <<p, <<>>>>

\* str.split('/'): the components between separators
RECURSIVE SplitFrom(_, _, _, _)
SplitFrom(s, i, cur, acc) ==
    IF i > Len(s) THEN Append(acc, cur)
    ELSE IF s[i] = SEP THEN SplitFrom(s, i + 1, <<>>, Append(acc, cur))
    ELSE SplitFrom(s, i + 1, Append(cur, s[i]), acc)
Split(s) == SplitFrom(s, 1, <<>>, <<>>)

\* '/'.join(comps)
RECURSIVE JoinComps(_)
JoinComps(comps) ==
    IF comps = <<>> THEN <<>>
    ELSE IF Len(comps) = 1 THEN comps[1]
    ELSE comps[1] \o <<SEP>> \o JoinComps(Tail(comps))

\* posixpath.normpath
RECURSIVE NormComps(_, _, _)
NormComps(comps, initial, new) ==
    IF comps = <<>> THEN new
    ELSE LET comp == Head(comps)
             rest == Tail(comps)
         IN  IF comp = <<>> \/ comp = <<DOT>> THEN NormComps(rest, initial, new)
             ELSE IF \/ comp # <<DOT, DOT>>
                     \/ (initial = 0 /\ new = <<>>)
                     \/ (new # <<>> /\ new[Len(new)] = <<DOT, DOT>>)
                  THEN NormComps(rest, initial, Append(new, comp))
             ELSE IF new # <<>> THEN NormComps(rest, initial, SubSeq(new, 1, Len(new) - 1))
             ELSE NormComps(rest, initial, new)
StartsWith(s, t) == Len(s) >= Len(t) /\ SubSeq(s, 1, Len(t)) = t
Normpath(path) ==
    IF path = <<>> THEN <<DOT>>
    ELSE LET initial == IF ~StartsWith(path, <<SEP>>) THEN 0
                        ELSE IF StartsWith(path, <<SEP, SEP>>) /\ ~StartsWith(path, <<SEP, SEP, SEP>>)
                             THEN 2 ELSE 1
             joined == JoinComps(NormComps(Split(path), initial, <<>>))
             res == [i \in 1..initial |-> SEP] \o joined
         IN  IF res = <<>> THEN <<DOT>> ELSE res

\* posixpath.basename
Basename(p) == SubSeq(p, RFind(p, SEP) + 1, Len(p))

\* posixpath.join(a, b)
Join(a, b) ==
    IF StartsWith(b, <<SEP>>) THEN b
    ELSE IF a = <<>> \/ a[Len(a)] = SEP THEN a \o b
    ELSE a \o <<SEP>> \o b

-----------------------------------------------------------------------------
(* File system: the directories os.path.exists finds and os.makedirs makes *)

\* A normalised path and the directories above it
AncestorsOrSelf(c) ==
    {SubSeq(c, 1, i) : i \in {j \in 1..Len(c) : j = Len(c) \/ c[j + 1] = SEP}}
        \cup (IF StartsWith(c, <<SEP>>) THEN {<<SEP>>} ELSE {})

\* What a function sees of a directory: os.path.exists(path), and whether
\* os.makedirs(path) would succeed; the empty path never exists and cannot
\* be made
View(fs, path) ==
    IF path = <<>> THEN [exists |-> FALSE, canCreate |-> FALSE]
    ELSE [exists |-> Normpath(path) \in fs.dirs, canCreate |-> fs.canCreate]

\* The file system after os.makedirs(path) succeeded (path None: not called):
\* the directory exists, and so does every directory above it
Makedirs(fs, path) ==
    IF path = None THEN fs
    ELSE [fs EXCEPT !.dirs = @ \cup AncestorsOrSelf(Normpath(path))]


-----------------------------------------------------------------------------
(* mainmixalot: asset classification and output path resolution *)

ObjTypes == {"MESH", "EMPTY"}

\* The loop of _CheckArmatureContainsMesh: first MESH child returns True
RECURSIVE CheckFrom(_, _)
CheckFrom(ch, i) ==
    IF i > Len(ch) THEN FALSE
    ELSE IF ch[i] = "MESH" THEN TRUE
    ELSE CheckFrom(ch, i + 1)
CheckFirstChildOnly(ch) == Len(ch) >= 1 /\ ch[1] = "MESH"
_CheckArmatureContainsMesh(ch) == CheckFrom(ch, 1)

NoneToEmpty(s) == IF s = None THEN <<>> ELSE Strip(s)

\* lines 93-102: "." for an empty directory, then the Actor or Motions segment
\* unless the normalised directory already ends with it
AppendedDirNoNormpath(isA, fbxOutputPath1, appendActorOrMotionPath) ==
    LET fbxOutputPath2 == IF fbxOutputPath1 = <<>> THEN <<DOT>> ELSE fbxOutputPath1
        dirToAppend == IF isA THEN <<"Actor">> ELSE <<"Motions">>
        lastDir == Basename(fbxOutputPath2)
    IN  IF appendActorOrMotionPath /\ lastDir # dirToAppend
        THEN Join(fbxOutputPath2, dirToAppend)
        ELSE fbxOutputPath2
AppendedDir(isA, fbxOutputPath1, appendActorOrMotionPath) ==
    LET fbxOutputPath2 == IF fbxOutputPath1 = <<>> THEN <<DOT>> ELSE fbxOutputPath1
        dirToAppend == IF isA THEN <<"Actor">> ELSE <<"Motions">>
        lastDir == Basename(Normpath(fbxOutputPath2))
    IN  IF appendActorOrMotionPath /\ lastDir # dirToAppend
        THEN Join(fbxOutputPath2, dirToAppend)
        ELSE fbxOutputPath2

\* lines 103-112; fs = [exists, canCreate] answers os.path.exists and
\* os.makedirs for the directory.  made is the directory os.makedirs created,
\* failed tells that os.makedirs raised.
EnsureDirNoSentinel(fbxOutputPath, fbxFilename, fs) ==
    IF ~fs.exists
    THEN IF fs.canCreate
         THEN [ret |-> Join(fbxOutputPath, fbxFilename), made |-> fbxOutputPath, failed |-> FALSE]
         ELSE [ret |-> Join(fbxOutputPath, fbxFilename), made |-> None, failed |-> TRUE]
    ELSE [ret |-> Join(fbxOutputPath, fbxFilename), made |-> None, failed |-> FALSE]
EnsureDir(fbxOutputPath, fbxFilename, fs) ==
    IF ~fs.exists
    THEN IF fs.canCreate
         THEN [ret |-> Join(fbxOutputPath, fbxFilename), made |-> fbxOutputPath, failed |-> FALSE]
         ELSE [ret |-> None, made |-> None, failed |-> TRUE]
    ELSE [ret |-> Join(fbxOutputPath, fbxFilename), made |-> None, failed |-> FALSE]

\* _GetOutputFilename(isActor, fbxFilename, fbxOutputPath, appendActorOrMotionPath)
_GetOutputFilename(isA, fbxFilename0, fbxOutputPath0, appendActorOrMotionPath, fs) ==
    LET fbxFilename1 == NoneToEmpty(fbxFilename0)
        fbxOutputPath1 == NoneToEmpty(fbxOutputPath0)
    IN  IF fbxFilename1 = <<>> THEN [ret |-> None, made |-> None, failed |-> FALSE]
        ELSE LET name == Splitext(fbxFilename1)[1]
                 fbxFilename == name \o <<DOT, "fbx">>
             IN  EnsureDir(AppendedDir(isA, fbxOutputPath1, appendActorOrMotionPath),
                           fbxFilename, fs)

-----------------------------------------------------------------------------
(* commonmixalot: export path, texture extraction, ExportFBX *)

\* _MakeFilePathForFBX: no stripping, no Actor/Motions segment
_MakeFilePathForFBX(fbxFilename0, fbxOutputPath, fs) ==
    LET name == Splitext(fbxFilename0)[1]
        fbxFilename == name \o <<DOT, "fbx">>
    IN  IF ~fs.exists
        THEN IF fs.canCreate
             THEN [ret |-> Join(fbxOutputPath, fbxFilename), made |-> fbxOutputPath, failed |-> FALSE]
             ELSE [ret |-> None, made |-> None, failed |-> TRUE]
        ELSE [ret |-> Join(fbxOutputPath, fbxFilename), made |-> None, failed |-> FALSE]

HasImage(imgs) == \E i \in 1..Len(imgs) : imgs[i].has_data
WithData(imgs) == {i \in 1..Len(imgs) : imgs[i].has_data}

\* lines 209-214: the directory _CreateTexturesSubdir makes, None when it
\* calls no os.makedirs or the call fails
TexturesMade(imgs, outputDirectoryPath, tfs) ==
    IF HasImage(imgs) /\ ~tfs.exists /\ tfs.canCreate
    THEN Join(outputDirectoryPath, <<"textures">>)
    ELSE None

\* _CreateTexturesSubdir; tfs = [exists, canCreate] for <output>/textures
_CreateTexturesSubdir(imgs, outputDirectoryPath, tfs) ==
    IF ~HasImage(imgs) THEN outputDirectoryPath
    ELSE LET finalDir == Join(outputDirectoryPath, <<"textures">>)
         IN  IF ~tfs.exists /\ ~tfs.canCreate THEN outputDirectoryPath ELSE finalDir

\* The loop of _UnpackTextures from image i on.  failAt is the image whose
\* image.save() raises (0: none does); the exception leaves the loop at once.
RECURSIVE UnpackLoop(_, _, _, _, _, _)
UnpackLoop(imgs, i, dir, filenamePrefix, failAt, sv) ==
    IF i > Len(imgs) THEN [images |-> imgs, saved |-> sv, err |-> "none"]
    ELSE IF ~imgs[i].has_data THEN UnpackLoop(imgs, i + 1, dir, filenamePrefix, failAt, sv)
    ELSE LET originalFilepath == imgs[i].filepath
             originalFilepathRaw == imgs[i].filepath_raw
             newFilename == filenamePrefix \o <<"_">> \o Basename(imgs[i].filepath)
             finalOutputPath == Join(dir, newFilename)
             moved == [imgs EXCEPT ![i].filepath = finalOutputPath,
                                   ![i].filepath_raw = finalOutputPath]
             restored == [moved EXCEPT ![i].filepath = originalFilepath,
                                      ![i].filepath_raw = originalFilepathRaw]
         IN  IF failAt = i
             THEN [images |-> moved, saved |-> sv, err |-> "RuntimeError"]
             ELSE UnpackLoop(restored, i + 1, dir, filenamePrefix, failAt,
                             Append(sv, [img |-> i, path |-> moved[i].filepath,
                                         raw |-> moved[i].filepath_raw]))
_UnpackTextures(imgs, outputDirectoryPath, filenamePrefix, tfs, failAt) ==
    LET dir == _CreateTexturesSubdir(imgs, outputDirectoryPath, tfs)
    IN  [dir |-> dir] @@ UnpackLoop(imgs, 1, dir, filenamePrefix, failAt, <<>>)

\* ExportFBX: [ret, err, exported, tex]; tex is the _UnpackTextures result,
\* or the images untouched when it is not called
NoTex(imgs) == [dir |-> None, images |-> imgs, saved |-> <<>>, err |-> "none"]
ExportFBX(imgs, fbxFilename, fbxOutputPath, unpackTextures, fs, tfs, failAt) ==
    LET r == _MakeFilePathForFBX(fbxFilename, fbxOutputPath, fs)
    IN  IF r.ret = None
        THEN [ret |-> None, err |-> "Exception", exported |-> None, made |-> r.made,
              tex |-> NoTex(imgs)]
        ELSE IF unpackTextures
        THEN LET t == _UnpackTextures(imgs, fbxOutputPath, Splitext(fbxFilename)[1], tfs, failAt)
             IN  [ret |-> IF t.err = "none" THEN r.ret ELSE None, err |-> t.err,
                  exported |-> r.ret, made |-> r.made, tex |-> t]
        ELSE [ret |-> r.ret, err |-> "none", exported |-> r.ret, made |-> r.made,
              tex |-> NoTex(imgs)]


-----------------------------------------------------------------------------
(* commonmixalot: the bone hierarchy *)

BoneNames == {"root", "Hips", "Spine", "Leg"}

\* Module globals of commonmixalot.py: the file imports os, json, bpy and the
\* names of mathutils, and binds no name cmn, so evaluating the name cmn
\* inside one of its functions raises NameError.
cmnBound == FALSE

RECURSIVE CountRoots(_, _)
CountRoots(bs, i) ==
    IF i > Len(bs) THEN 0
    ELSE (IF bs[i].parent = 0 THEN 1 ELSE 0) + CountRoots(bs, i + 1)
HasOnlyOneRootBone(bs) == CountRoots(bs, 1) = 1

HasRootMotionBone(bs, rootBoneName) ==
    \E i \in 1..Len(bs) : bs[i].parent = 0 /\ bs[i].name = rootBoneName

\* GetRootBone: index of the first bone without parent, 0 for None
RECURSIVE GetRootFrom(_, _)
GetRootFrom(bs, i) ==
    IF i > Len(bs) THEN 0 ELSE IF bs[i].parent = 0 THEN i ELSE GetRootFrom(bs, i + 1)
GetRootBone(bs) == GetRootFrom(bs, 1)

\* bpy_prop_collection.find(key): 0-based index, -1 when no bone has the name
RECURSIVE FindFrom(_, _, _)
FindFrom(bs, key, i) ==
    IF i > Len(bs) THEN -1 ELSE IF bs[i].name = key THEN i - 1 ELSE FindFrom(bs, key, i + 1)
Find(bs, key) == FindFrom(bs, key, 1)

\* collection[k] with Python's negative indices; 0 when k is out of range
PyIndex(bs, k) ==
    LET j == IF k >= 0 THEN k + 1 ELSE Len(bs) + k + 1
    IN  IF j \in 1..Len(bs) THEN j ELSE 0

\* edit_bones.new(name): the host makes the name unique with a numeric suffix
Suffixed(n) ==
    CASE n = "root" -> "root.001" [] n = "Hips" -> "Hips.001"
      [] n = "Spine" -> "Spine.001" [] OTHER -> "Leg.001"
NewBone(bs, name) ==
    Append(bs, [name |-> IF Find(bs, name) = -1 THEN name ELSE Suffixed(name),
                parent |-> 0])

\* EditBone.parent = p: the host ignores an assignment that would make a bone
\* its own ancestor
RECURSIVE IsAncestorOrSelf(_, _, _, _)
IsAncestorOrSelf(bs, a, b, fuel) ==
    IF b = 0 \/ fuel = 0 THEN FALSE
    ELSE IF a = b THEN TRUE
    ELSE IsAncestorOrSelf(bs, a, bs[b].parent, fuel - 1)
SetParent(bs, c, p) ==
    IF IsAncestorOrSelf(bs, c, p, Len(bs)) THEN bs ELSE [bs EXCEPT ![c].parent = p]

\* AddSiblingRootBone(obj, boneName) on state st = [bones, mode, editEntered]
AddSiblingRootBone(st, boneName) ==
    IF ~cmnBound
    THEN st @@ [err |-> "NameError"]
    ELSE
    LET hasOnlyOneRootBone == HasOnlyOneRootBone(st.bones)
        hasRootMotionBone == HasRootMotionBone(st.bones, boneName)
    IN  IF hasOnlyOneRootBone /\ hasRootMotionBone
        THEN st @@ [err |-> "AlreadyProcessed"]
        ELSE IF hasRootMotionBone
        THEN st @@ [err |-> "none"]
        ELSE [bones |-> NewBone(st.bones, boneName), mode |-> "OBJECT",
              editEntered |-> TRUE, err |-> "none"]

\* MakeParentBone(obj, parentBoneName, childBoneName)
MakeParentBone(st, parentBoneName, childBoneName) ==
    LET rootBoneIndex == Find(st.bones, parentBoneName)
        childBoneIndex == Find(st.bones, childBoneName)
        c == PyIndex(st.bones, childBoneIndex)
        p == PyIndex(st.bones, rootBoneIndex)
    IN  IF c = 0 \/ p = 0
        THEN [bones |-> st.bones, mode |-> "EDIT", editEntered |-> TRUE, err |-> "IndexError"]
        ELSE [bones |-> SetParent(st.bones, c, p), mode |-> "OBJECT",
              editEntered |-> TRUE, err |-> "none"]

BoneState == [bones |-> bones, mode |-> mode, editEntered |-> editEntered]

CallAddSiblingRootBone ==
    /\ Len(hist) < MaxCalls
    /\ LET r == AddSiblingRootBone(BoneState, args.rootBoneName)
       IN  /\ bones' = r.bones
           /\ mode' = r.mode
           /\ editEntered' = r.editEntered
           /\ hist' = Append(hist, [op |-> "AddSiblingRootBone", a |-> args.rootBoneName,
                                    b |-> "", err |-> r.err])
    /\ UNCHANGED <<bones0, args, rotation, varsConv, varsCall, varsTex>>

CallMakeParentBone ==
    /\ Len(hist) < MaxCalls
    /\ LET r == MakeParentBone(BoneState, args.rootBoneName, args.hipBoneName)
       IN  /\ bones' = r.bones
           /\ mode' = r.mode
           /\ editEntered' = r.editEntered
           /\ hist' = Append(hist, [op |-> "MakeParentBone", a |-> args.rootBoneName,
                                    b |-> args.hipBoneName, err |-> r.err])
    /\ UNCHANGED <<bones0, args, rotation, varsConv, varsCall, varsTex>>

\* GetPoseBoneFromArmature(armatureObj, boneName): sets POSE mode and leaves
\* it; returns the first pose bone of that name (its index), or None (0)
GetPoseBoneFromArmature(st, boneName) ==
    [bones |-> st.bones, mode |-> "POSE", editEntered |-> st.editEntered,
     err |-> "none", ret |-> Find(st.bones, boneName) + 1]

CallGetPoseBoneFromArmature ==
    /\ Len(hist) < MaxCalls
    /\ LET r == GetPoseBoneFromArmature(BoneState, args.hipBoneName)
       IN  /\ bones' = r.bones
           /\ mode' = r.mode
           /\ editEntered' = r.editEntered
           /\ hist' = Append(hist, [op |-> "GetPoseBoneFromArmature", a |-> args.hipBoneName,
                                    b |-> "", err |-> r.err, ret |-> r.ret])
    /\ UNCHANGED <<bones0, args, rotation, varsConv, varsCall, varsTex>>

\* ApplyCurrentRotationAs000(obj): sets OBJECT mode, then transform_apply
\* makes the current rotation the zero rotation
ApplyCurrentRotationAs000(st) ==
    [bones |-> st.bones, mode |-> "OBJECT", editEntered |-> st.editEntered,
     rotation |-> "zero", err |-> "none"]

CallApplyCurrentRotationAs000 ==
    /\ Len(hist) < MaxCalls
    /\ LET r == ApplyCurrentRotationAs000(BoneState)
       IN  /\ bones' = r.bones
           /\ mode' = r.mode
           /\ editEntered' = r.editEntered
           /\ rotation' = r.rotation
           /\ hist' = Append(hist, [op |-> "ApplyCurrentRotationAs000", a |-> "",
                                    b |-> "", err |-> r.err])
    /\ UNCHANGED <<bones0, args, varsConv, varsCall, varsTex>>

\* Hierarchies the host can hold: unique names, parent links forming a forest
Forest(bs) ==
    /\ \A i, j \in 1..Len(bs) : i # j => bs[i].name # bs[j].name
    /\ \A i \in 1..Len(bs) : bs[i].parent \in 0..Len(bs)
    /\ \A i \in 1..Len(bs) : ~IsAncestorOrSelf(bs, i, bs[i].parent, Len(bs))
Hierarchies ==
    {bs \in SeqsUpTo([name : BoneNames, parent : 0..MaxBones], MaxBones) : Forest(bs)}


-----------------------------------------------------------------------------
(* mainmixalot.Convert: a generator; each action below is one next() of the  *)
(* caller, running the code up to the next yield, the return or an exception *)

Ev(e, arg) == [e |-> e, arg |-> arg]

\* Stages of the iterator made by actormixalot.ProcessActor or
\* motionmixalot.ProcessMotion: the guard, the root bone synthesis and the
\* branch of the asset type, one per status it yields
IterStages(kind) ==
    IF kind = "ProcessActor"
    THEN <<"HierarchyGuard", "RootBoneSynthesizer", "RestPoseNormalizer">>
    ELSE <<"HierarchyGuard", "RootBoneSynthesizer", "MotionBaker">>

\* lines 163-167: which iterator Convert makes
Branch(a) == IF a THEN "ProcessActor" ELSE "ProcessMotion"

NoIter == [kind |-> "none", left |-> <<>>, hipBoneName |-> None, rootBoneName |-> None]

\* line 145
ConvertStart ==
    /\ pc = "new"
    /\ call.fn \in {"none", "ImportFBX"}
    /\ events' = Append(events, "starting Convert")
    /\ pc' = "started"
    /\ UNCHANGED <<children, isActor, cfg, fsys, outputFilename, trace, iter>>
    /\ UNCHANGED <<varsBones, varsCall, varsTex>>

\* lines 147-152: the bone names the iterator is given
BoneNameOr(n, default) == IF NoneToEmpty(n) = <<>> THEN default ELSE NoneToEmpty(n)

\* lines 147-156
ConvertClassify ==
    /\ pc = "started"
    /\ isActor' = _CheckArmatureContainsMesh(children)
    /\ trace' = Append(trace, Ev("AssetClassifier", None))
    /\ events' = Append(events, "Checked Asset Type")
    /\ pc' = "classified"
    /\ UNCHANGED <<children, cfg, fsys, outputFilename, iter>>
    /\ UNCHANGED <<varsBones, varsCall, varsTex>>

\* lines 158-161
OutputDir(isA) == AppendedDir(isA, NoneToEmpty(cfg.fbxOutputPath), cfg.append)
ResolveThenYield(r) ==
    /\ outputFilename' = r.ret
    /\ fsys' = Makedirs(fsys, r.made)
    /\ trace' = trace \o (IF r.made # None THEN <<Ev("makedirs", r.made)>> ELSE <<>>)
                      \o <<Ev("PathResolver", r.ret)>>
    /\ events' = Append(events, "Processed output path strings")
    /\ pc' = "resolved"
\* lines 158-167 with the yield of line 161 left out: the pull that resolves
\* the path runs on into the first stage of the iterator
ConvertResolveNoYield ==
    /\ pc = "classified"
    /\ LET r == _GetOutputFilename(isActor, cfg.fbxFilename, cfg.fbxOutputPath,
                                   cfg.append, View(fsys, OutputDir(isActor)))
           stages == IterStages(Branch(isActor))
       IN  /\ outputFilename' = r.ret
           /\ fsys' = Makedirs(fsys, r.made)
           /\ trace' = trace \o (IF r.made # None THEN <<Ev("makedirs", r.made)>> ELSE <<>>)
                             \o <<Ev("PathResolver", r.ret), Ev("iterator", <<Head(stages)>>)>>
           /\ iter' = [kind |-> Branch(isActor), left |-> Tail(stages),
                       hipBoneName |-> BoneNameOr(cfg.hipBoneName, <<"Hips">>),
                       rootBoneName |-> BoneNameOr(cfg.rootBoneName, <<"root">>)]
    /\ events' = Append(events, "status")
    /\ pc' = "converting"
    /\ UNCHANGED <<children, isActor, cfg>>
    /\ UNCHANGED <<varsBones, varsCall, varsTex>>

ConvertResolve ==
    /\ pc = "classified"
    /\ ResolveThenYield(_GetOutputFilename(isActor, cfg.fbxFilename, cfg.fbxOutputPath,
                                           cfg.append, View(fsys, OutputDir(isActor))))
    /\ UNCHANGED <<children, isActor, cfg, iter>>
    /\ UNCHANGED <<varsBones, varsCall, varsTex>>

\* lines 163-172: the iterator is made on the first entry; each next() of it
\* runs one stage and yields, or raises; when it is exhausted the loop ends
ConvertIterate ==
    /\ pc \in {"resolved", "converting"}
    /\ LET it == IF pc = "resolved"
                 THEN [kind |-> Branch(isActor), left |-> IterStages(Branch(isActor)),
                       hipBoneName |-> BoneNameOr(cfg.hipBoneName, <<"Hips">>),
                       rootBoneName |-> BoneNameOr(cfg.rootBoneName, <<"root">>)]
                 ELSE iter
       IN  \/ /\ it.left # <<>>
              /\ iter' = [it EXCEPT !.left = Tail(it.left)]
              /\ trace' = Append(trace, Ev("iterator", <<Head(it.left)>>))
              /\ events' = Append(events, "status")
              /\ pc' = "converting"
           \/ /\ it.left # <<>>
              /\ iter' = it
              /\ trace' = Append(trace, Ev("raise", None))
              /\ events' = events
              /\ pc' = "failed"
           \/ /\ it.left = <<>>
              /\ iter' = it
              /\ trace' = trace
              /\ events' = Append(events, "Completed Asset Conversion.")
              /\ pc' = "converted"
    /\ UNCHANGED <<children, isActor, cfg, fsys, outputFilename>>
    /\ UNCHANGED <<varsBones, varsCall, varsTex>>

ConvertExportEarly ==
    /\ pc = "resolved"
    /\ IF outputFilename # None
       THEN /\ trace' = Append(trace, Ev("_ExportFbx", outputFilename))
            /\ events' = Append(events, "FBX Assert exported.")
            /\ pc' = "exported"
       ELSE /\ trace' = trace
            /\ events' = events
            /\ pc' = "done"
    /\ UNCHANGED <<children, isActor, cfg, fsys, outputFilename, iter>>
    /\ UNCHANGED <<varsBones, varsCall, varsTex>>

\* lines 174-178
ConvertExport ==
    /\ pc = "converted"
    /\ IF outputFilename # None
       THEN /\ trace' = Append(trace, Ev("_ExportFbx", outputFilename))
            /\ events' = Append(events, "FBX Assert exported.")
            /\ pc' = "exported"
       ELSE /\ trace' = trace
            /\ events' = events
            /\ pc' = "done"
    /\ UNCHANGED <<children, isActor, cfg, fsys, outputFilename, iter>>
    /\ UNCHANGED <<varsBones, varsCall, varsTex>>

\* line 178
ConvertReturn ==
    /\ pc = "exported"
    /\ pc' = "done"
    /\ UNCHANGED <<children, isActor, cfg, fsys, outputFilename, events, trace, iter>>
    /\ UNCHANGED <<varsBones, varsCall, varsTex>>

-----------------------------------------------------------------------------
(* Calls of single functions *)

NoView == [exists |-> FALSE, canCreate |-> FALSE]
NoCall == [fn |-> "none", ret |-> None, made |-> None, err |-> "none", exported |-> None,
           fs |-> NoView]
NoTexCall == [state |-> "none", err |-> "none", dir |-> None, out |-> None,
              prefix |-> None, tfs |-> NoView, written |-> <<>>]

\* _GetOutputFilename(isActor, fbxFilename, fbxOutputPath, appendActorOrMotionPath)
CallGetOutputFilename ==
    /\ pc = "new"
    /\ Len(hist) < MaxCalls
    /\ LET fs == View(fsys, OutputDir(isActor))
           r == _GetOutputFilename(isActor, cfg.fbxFilename, cfg.fbxOutputPath, cfg.append, fs)
       IN  /\ call' = [fn |-> "_GetOutputFilename", ret |-> r.ret, made |-> r.made,
                       err |-> "none", exported |-> None, fs |-> fs]
           /\ fsys' = Makedirs(fsys, r.made)
           /\ hist' = Append(hist, [op |-> "_GetOutputFilename", a |-> r.ret, b |-> r.made,
                                    err |-> "none"])
    /\ UNCHANGED <<bones, mode, editEntered, bones0, args, rotation>>
    /\ UNCHANGED <<varsConvLocal, varsTex>>

\* The files a sequence of image.save() calls wrote
Files(sv) == {sv[k].path : k \in 1..Len(sv)}

\* The record of the texture extraction t of a call
TexCallOf(t, tfs, prefix) ==
    [state |-> IF t.dir = None THEN "none"
               ELSE IF t.err = "none" THEN "returned" ELSE "raised",
     err |-> t.err, dir |-> t.dir, out |-> IF t.dir = None THEN None ELSE cfg.fbxOutputPath,
     prefix |-> IF t.dir = None THEN None ELSE prefix,
     tfs |-> IF t.dir = None THEN NoView ELSE tfs, written |-> t.saved]

\* ExportFBX(fbxFilename, fbxOutputPath, unpackTextures); _CreateTexturesSubdir
\* looks for <output>/textures after _MakeFilePathForFBX has made <output>
CallExportFBX ==
    /\ pc = "new"
    /\ Len(hist) < MaxCalls
    /\ \E failAt \in {0} \cup WithData(images) :
          LET fs == View(fsys, cfg.fbxOutputPath)
              made == _MakeFilePathForFBX(cfg.fbxFilename, cfg.fbxOutputPath, fs).made
              fsys1 == Makedirs(fsys, made)
              tfs == View(fsys1, Join(cfg.fbxOutputPath, <<"textures">>))
              r == ExportFBX(images, cfg.fbxFilename, cfg.fbxOutputPath, cfg.unpack,
                             fs, tfs, failAt)
              texMade == IF r.tex.dir = None THEN None
                         ELSE TexturesMade(images, cfg.fbxOutputPath, tfs)
          IN  /\ call' = [fn |-> "ExportFBX", ret |-> r.ret, made |-> r.made,
                          err |-> r.err, exported |-> r.exported, fs |-> fs]
              /\ fsys' = Makedirs(fsys1, texMade)
              /\ hist' = Append(hist, [op |-> "ExportFBX", a |-> r.exported, b |-> r.made,
                                       err |-> r.err])
              /\ images' = r.tex.images
              /\ saved' = saved \cup Files(r.tex.saved)
              /\ texcall' = TexCallOf(r.tex, tfs, Splitext(cfg.fbxFilename)[1])
    /\ images0' = images
    /\ UNCHANGED <<bones, mode, editEntered, bones0, args, rotation>>
    /\ UNCHANGED varsConvLocal

\* _UnpackTextures(outputDirectoryPath, filenamePrefix)
CallUnpackTextures ==
    /\ pc = "new"
    /\ Len(hist) < MaxCalls
    /\ \E failAt \in {0} \cup WithData(images) :
          LET prefix == Splitext(cfg.fbxFilename)[1]
              tfs == View(fsys, Join(cfg.fbxOutputPath, <<"textures">>))
              t == _UnpackTextures(images, cfg.fbxOutputPath, prefix, tfs, failAt)
              texMade == TexturesMade(images, cfg.fbxOutputPath, tfs)
          IN  /\ call' = [fn |-> "_UnpackTextures", ret |-> None, made |-> texMade,
                          err |-> t.err, exported |-> None, fs |-> tfs]
              /\ fsys' = Makedirs(fsys, texMade)
              /\ hist' = Append(hist, [op |-> "_UnpackTextures", a |-> None, b |-> texMade,
                                       err |-> t.err])
              /\ images' = t.images
              /\ saved' = saved \cup Files(t.saved)
              /\ texcall' = TexCallOf(t, tfs, prefix)
    /\ images0' = images
    /\ UNCHANGED <<bones, mode, editEntered, bones0, args, rotation>>
    /\ UNCHANGED varsConvLocal

-----------------------------------------------------------------------------
(* Initial states and specifications *)

NameAtoms == {"a", DOT, "fbx", WS}
DirAtoms  == {"out", "Motions", "Actor", SEP, DOT, WS}
FewNames  == {<<"a">>, <<"a", DOT, "fbx">>}
FewDirs   == {<<"out">>, <<"out", SEP, "Motions">>, <<"Actor", SEP>>}
ImagePaths == {<<>>, <<"t", DOT, "png">>, <<SEP, "tex", SEP, "t", DOT, "png">>}
ImageSet ==
    {[has_data |-> TRUE, filepath |-> f, filepath_raw |-> f] : f \in ImagePaths}
        \cup {[has_data |-> FALSE, filepath |-> <<"t", DOT, "png">>,
                filepath_raw |-> <<"t", DOT, "png">>]}

\* _ClearCachedCollectionData(collection): removes every entry of it
_ClearCachedCollectionData(collection) == SubSeq(collection, 1, 0)

\* ImportFBX(fbxFilepath): clears bpy.data.actions (not tracked here) and
\* bpy.data.images, then the host imports the file, which brings the images
\* the file embeds (imported; none for a file without textures)
ImportFBX(imgs, imported) == _ClearCachedCollectionData(imgs) \o imported

\* Files an import is made from: without a texture, or with one
ImportedImages ==
    {[has_data |-> TRUE, filepath |-> f, filepath_raw |-> f] :
        f \in {<<"t", DOT, "png">>, <<SEP, "tex", SEP, "t", DOT, "png">>}}
ImportedFiles == {<<>>} \cup {<<i>> : i \in ImportedImages}

\* ImportFBX deletes no file and no directory: what was saved, exported and
\* made stays; the record of the last texture extraction goes with the
\* images it was about
CallImportFBX ==
    /\ \E imported \in ImportedFiles :
          images' = ImportFBX(images, imported)
    /\ images0' = images'
    /\ texcall' = NoTexCall
    /\ call' = [fn |-> "ImportFBX", ret |-> None, made |-> None, err |-> "none",
                exported |-> None, fs |-> NoView]
    /\ UNCHANGED <<saved, varsBones, varsConv>>

\* File systems a run can start in: of the directories the paths name, some
\* exist, each with the directories above it
DirSets(paths) ==
    LET all == UNION {AncestorsOrSelf(Normpath(q)) : q \in paths \ {<<>>}}
    IN  {d \in SUBSET all : \A q \in d : AncestorsOrSelf(q) \subseteq d}
FsInit(paths) == [dirs : DirSets(paths), canCreate : BOOLEAN]

IdleBones ==
    /\ bones = <<>> /\ bones0 = <<>> /\ mode = "OBJECT" /\ editEntered = FALSE
    /\ hist = <<>> /\ args = [rootBoneName |-> "root", hipBoneName |-> "Hips"]
    /\ rotation = "zero"
IdleConv ==
    /\ pc = "new" /\ children = <<>> /\ isActor = FALSE
    /\ outputFilename = Unset /\ events = <<>> /\ trace = <<>>
    /\ iter = NoIter
IdleCfg ==
    /\ cfg = [fbxFilename |-> <<"a">>, fbxOutputPath |-> <<"out">>, append |-> TRUE,
              unpack |-> FALSE, hipBoneName |-> <<>>, rootBoneName |-> <<>>]
    /\ fsys = [dirs |-> {}, canCreate |-> TRUE]
IdleTex ==
    /\ images = <<>> /\ images0 = <<>> /\ saved = {} /\ texcall = NoTexCall

\* Hierarchy operations called on an armature
InitBones ==
    /\ bones \in Hierarchies
    /\ bones0 = bones
    /\ mode = "OBJECT" /\ editEntered = FALSE /\ hist = <<>>
    /\ args \in [rootBoneName : {"root", "Hips"}, hipBoneName : BoneNames]
    /\ rotation \in {"rotated", "zero"}
    /\ IdleConv /\ IdleCfg /\ call = NoCall /\ IdleTex
NextBones ==
    \/ CallAddSiblingRootBone \/ CallMakeParentBone
    \/ CallGetPoseBoneFromArmature \/ CallApplyCurrentRotationAs000
SpecBones == InitBones /\ [][NextBones]_vars

\* One call of _GetOutputFilename
InitPath ==
    /\ IdleBones /\ IdleTex /\ call = NoCall
    /\ pc = "new" /\ children = <<>> /\ isActor \in BOOLEAN
    /\ outputFilename = Unset /\ events = <<>> /\ trace = <<>>
    /\ iter = NoIter
    /\ cfg \in [fbxFilename : SeqsUpTo(NameAtoms, MaxNameLen), fbxOutputPath : FewDirs,
                append : BOOLEAN, unpack : {FALSE},
                 hipBoneName : {<<>>}, rootBoneName : {<<>>}]
           \cup [fbxFilename : FewNames, fbxOutputPath : SeqsUpTo(DirAtoms, MaxDirLen),
                 append : BOOLEAN, unpack : {FALSE},
                 hipBoneName : {<<>>}, rootBoneName : {<<>>}]
    /\ fsys \in FsInit({OutputDir(isActor)})
NextPath == CallGetOutputFilename
SpecPath == InitPath /\ [][NextPath]_vars

\* A run of Convert, or a call of ExportFBX
ConvNames == {<<>>, <<WS>>, <<"a">>, <<"a", DOT, "fbx">>}
ConvDirs  == {<<>>, <<"out">>, <<"out", SEP, "Motions">>}
InitConv ==
    /\ IdleBones /\ call = NoCall
    /\ pc = "new" /\ isActor = FALSE
    /\ children \in SeqsUpTo(ObjTypes, MaxChildren)
    /\ outputFilename = Unset /\ events = <<>> /\ trace = <<>>
    /\ iter = NoIter
    /\ cfg \in [fbxFilename : ConvNames, fbxOutputPath : ConvDirs,
                append : BOOLEAN, unpack : BOOLEAN,
                hipBoneName : {<<>>, <<WS, "Pelvis">>}, rootBoneName : {None, <<"root">>}]
    /\ fsys \in FsInit({OutputDir(_CheckArmatureContainsMesh(children)), cfg.fbxOutputPath})
    /\ images \in {<<>>, <<[has_data |-> TRUE, filepath |-> <<"t", DOT, "png">>,
                             filepath_raw |-> <<"t", DOT, "png">>]>>}
    /\ images0 = images /\ saved = {} /\ texcall = NoTexCall
NextConv ==
    \/ ConvertStart \/ ConvertClassify \/ ConvertResolve \/ ConvertIterate
    \/ ConvertExport \/ ConvertReturn
    \/ CallExportFBX
SpecConv == InitConv /\ [][NextConv]_vars

\* Texture extraction, called alone or from ExportFBX
InitTex ==
    /\ IdleBones /\ IdleConv /\ call = NoCall
    /\ cfg \in [fbxFilename : {<<"a", DOT, "fbx">>},
                fbxOutputPath : {<<"out">>, <<"out", SEP>>},
                append : {TRUE}, unpack : BOOLEAN,
                hipBoneName : {<<>>}, rootBoneName : {<<>>}]
    /\ fsys \in FsInit({cfg.fbxOutputPath, Join(cfg.fbxOutputPath, <<"textures">>)})
    /\ images \in SeqsUpTo(ImageSet, MaxImages)
    /\ images0 = images /\ saved = {} /\ texcall = NoTexCall
NextTex == CallUnpackTextures \/ CallExportFBX \/ CallImportFBX
SpecTex == InitTex /\ [][NextTex]_vars

\* Everything together
Init == InitBones \/ InitPath \/ InitConv \/ InitTex
Next == NextBones \/ NextConv \/ NextTex \/ NextPath
Spec == Init /\ [][Next]_vars


-----------------------------------------------------------------------------
(* Properties of the hierarchy operations (SpecBones) *)

RootName(bs) == bs[GetRootBone(bs)].name
First(op) == Len(hist) >= 1 /\ hist[1].op = op

\* The create-and-reparent sequence has ended: AddSiblingRootBone raised, or
\* it returned and MakeParentBone has run
SynthesisEnded ==
    \/ Len(hist) = 1 /\ First("AddSiblingRootBone") /\ hist[1].err # "none"
    \/ Len(hist) = 2 /\ First("AddSiblingRootBone") /\ hist[1].err = "none"
                     /\ hist[2].op = "MakeParentBone"

\* C1: on a hierarchy with exactly one parentless bone B, B.name # rootBoneName,
\* AddSiblingRootBone(rootBoneName) then MakeParentBone(rootBoneName, B.name)
\* leaves exactly one parentless bone, named rootBoneName, B under it, and
\* every other parent link as before.
C1_RootBoneSynthesis ==
    ( /\ HasOnlyOneRootBone(bones0)
      /\ RootName(bones0) # args.rootBoneName
      /\ args.hipBoneName = RootName(bones0)
      /\ SynthesisEnded )
    => /\ HasOnlyOneRootBone(bones)
       /\ RootName(bones) = args.rootBoneName
       /\ bones[GetRootBone(bones0)].parent = GetRootBone(bones)
       /\ \A i \in 1..Len(bones0) :
             i # GetRootBone(bones0) => bones[i] = bones0[i]

\* C2: when the sole parentless bone is already named rootBoneName,
\* AddSiblingRootBone fails with the already-processed error of its guard and
\* changes nothing: no bone, no parent link, edit mode never entered.
C2_IdempotencyGuard ==
    ( /\ HasOnlyOneRootBone(bones0)
      /\ HasRootMotionBone(bones0, args.rootBoneName)
      /\ Len(hist) = 1 /\ First("AddSiblingRootBone") )
    => /\ hist[1].err = "AlreadyProcessed"
       /\ bones = bones0
       /\ ~editEntered

\* C3: when the number of parentless bones is not one, AddSiblingRootBone
\* fails with the ambiguous-hierarchy error and changes nothing.
C3_AmbiguousRejected ==
    ( /\ ~HasOnlyOneRootBone(bones0)
      /\ Len(hist) = 1 /\ First("AddSiblingRootBone") )
    => /\ hist[1].err = "AmbiguousHierarchy"
       /\ bones = bones0

\* C4: when no bone is named hipBoneName, the create-and-reparent sequence
\* fails with the unknown-bone error, the hierarchy is as before, and no
\* new root bone without a child is left.
C4_UnknownHipAtomic ==
    ( /\ Find(bones0, args.hipBoneName) = -1
      /\ SynthesisEnded )
    => /\ hist[Len(hist)].err = "UnknownBone"
       /\ bones = bones0

-----------------------------------------------------------------------------
(* Properties of Convert and ExportFBX (SpecConv) *)

Has(e) == \E i \in 1..Len(trace) : trace[i].e = e
AfterResolve == pc \in {"resolved", "converting", "converted", "exported", "done", "failed"}
Failing(fs) == ~fs.exists /\ ~fs.canCreate
DirFailed == call.fn = "ExportFBX" /\ Failing(call.fs)
DirFailedInConvert ==
    /\ Failing(View(fsys, OutputDir(_CheckArmatureContainsMesh(children))))
    /\ NoneToEmpty(cfg.fbxFilename) # <<>>

\* What Convert does when the output directory cannot be made
ConvertSurvivesDirFailure ==
    DirFailedInConvert =>
       /\ AfterResolve => outputFilename = None
       /\ ~Has("_ExportFbx") /\ ~Has("makedirs")
       /\ pc # "exported"
       /\ pc = "resolved" =>
             /\ events[Len(events)] = "Processed output path strings"
             /\ ENABLED ConvertIterate
       /\ pc = "failed" => Has("PathResolver") /\ trace[Len(trace)].e = "raise"
       /\ pc \in {"converted", "done"} =>
             /\ iter.kind # "none" /\ iter.left = <<>>
             /\ events[Len(events)] = "Completed Asset Conversion."

\* C5 (as amended): when the output directory cannot be made, _GetOutputFilename
\* returns None without raising, Convert goes on through the conversion
\* stages and ends without an export call and without an error of its own;
\* ExportFBX, whose _MakeFilePathForFBX returns None as well, makes no export
\* call but raises.
C5_DirFailureNonFatal ==
    /\ ConvertSurvivesDirFailure
    /\ DirFailed => call.err = "Exception" /\ call.exported = None /\ call.ret = None

\* C5 as stated: on a directory-creation failure no export call is made and no
\* error reaches the caller, in Convert and in ExportFBX alike.
C5_Original ==
    /\ ConvertSurvivesDirFailure
    /\ DirFailed => call.err = "none" /\ call.exported = None

C5_Witness ==
    /\ DirFailedInConvert /\ pc = "done" /\ outputFilename = None
    /\ Has("iterator") /\ iter.left = <<>> /\ ~Has("_ExportFbx")

\* C7: isActor is True exactly when some direct child is a MESH; classifying
\* has no effect; Convert makes the ProcessActor iterator exactly when isActor.
C7_Classification ==
    /\ pc \notin {"new", "started"} =>
          isActor = (\E i \in 1..Len(children) : children[i] = "MESH")
    /\ pc = "classified" =>
          /\ trace = <<Ev("AssetClassifier", None)>>
          /\ outputFilename = Unset /\ iter.kind = "none"
          /\ images = images0 /\ bones = bones0 /\ call = NoCall
    /\ iter.kind # "none" => iter.kind = (IF isActor THEN "ProcessActor" ELSE "ProcessMotion")
    /\ Has("iterator") => iter.kind # "none"

C7_Witness ==
    /\ pc = "done" /\ isActor /\ Has("iterator") /\ iter.kind = "ProcessActor"
    /\ Len(children) = 2 /\ children[1] = "EMPTY" /\ children[2] = "MESH"

\* Place of an effect in the pipeline of Convert
Rank(e) ==
    CASE e = "AssetClassifier" -> 1
      [] e \in {"makedirs", "PathResolver"} -> 2
      [] e \in {"iterator", "raise"} -> 3
      [] OTHER -> 4
Count(e) == Cardinality({i \in 1..Len(trace) : trace[i].e = e})
Yielding == {i \in 1..Len(trace) : trace[i].e \notin {"makedirs", "raise"}}

\* C8 (as amended): the stages of a run of Convert occur in the order
\* AssetClassifier, path resolution (with its directory creation), then the
\* conversion iterator (which holds the hierarchy guard, the root bone
\* synthesis and the branch of the type), then export; no effect of a later
\* stage precedes an earlier stage, and one progress event follows every stage.
C8_StageOrder ==
    /\ \A i, j \in 1..Len(trace) : i < j => Rank(trace[i].e) <= Rank(trace[j].e)
    /\ Count("AssetClassifier") <= 1 /\ Count("PathResolver") <= 1
    /\ Count("makedirs") <= 1 /\ Count("_ExportFbx") <= 1
    /\ Has("PathResolver") => Has("AssetClassifier")
    /\ Has("makedirs") => Has("PathResolver")
    /\ Has("iterator") \/ Has("raise") => Has("PathResolver")
    /\ Has("_ExportFbx") =>
          /\ Has("PathResolver") /\ iter.kind # "none" /\ iter.left = <<>>
          /\ \E k \in 1..Len(events) : events[k] = "Completed Asset Conversion."
    /\ Len(events) = (IF pc = "new" THEN 0 ELSE 1) + Cardinality(Yielding)
                     + (IF pc \in {"converted", "exported", "done"} THEN 1 ELSE 0)

\* C8 as stated: HierarchyGuard comes first, so no effect of the classifier or
\* of path resolution (directory creation included) precedes it.
C8_Original ==
    \A i \in 1..Len(trace) :
        trace[i].e \in {"AssetClassifier", "makedirs", "PathResolver"} =>
            \E j \in 1..(i - 1) : trace[j] = Ev("iterator", <<"HierarchyGuard">>)

C8_Witness ==
    /\ pc = "done" /\ Has("makedirs") /\ Has("_ExportFbx")
    /\ Count("iterator") = 3 /\ Len(events) = 8

-----------------------------------------------------------------------------
(* Pulling events from Convert (SpecConv) *)

\* Calls of next() made on the generator so far: each either yielded an event
\* or ended the generator (return, or an exception of the iterator)
Pulls == Len(events) + (IF pc \in {"done", "failed"} THEN 1 ELSE 0)
\* Stages of Convert run (or begun and raised) so far; the directory creation
\* belongs to the path resolution
StageRuns(t) == Cardinality({i \in 1..Len(t) : t[i].e # "makedirs"})
IsPrefix(s, t) == Len(s) <= Len(t) /\ SubSeq(t, 1, Len(s)) = s
Effects == <<trace, isActor, outputFilename, iter>>
Exported(t) == \E i \in 1..Len(t) : t[i].e = "_ExportFbx"

\* What holds of every step whatever the number of stages it runs: an effect
\* happens only in a step that is a pull, a step is at most one pull, the
\* export is the work of the pull that follows "Completed Asset Conversion.",
\* and nothing committed before is undone.
PullStep ==
    /\ Pulls' \in {Pulls, Pulls + 1}
    /\ Effects' # Effects => Pulls' = Pulls + 1
    /\ (Exported(trace') /\ ~Exported(trace)) => pc = "converted"
    /\ IsPrefix(trace, trace')
    /\ outputFilename # Unset => outputFilename' = outputFilename
    /\ fsys.dirs \subseteq fsys'.dirs /\ fsys'.canCreate = fsys.canCreate
    /\ cfg' = cfg /\ children' = children

\* C11 (as amended): each pull of Convert runs at most one stage (the
\* classifier, the path resolution, one step of the conversion iterator, or
\* the export) before it yields or ends, none before the first pull and none
\* in the first pull; effects happen only in pulls, so when the caller stops
\* after an event the stages run are at most the events pulled less one, the
\* export has not happened unless "Completed Asset Conversion." was pulled
\* and one more pull made, and what was committed stays in place.
C11_PullStepping ==
    /\ [](/\ StageRuns(trace) <= (IF Pulls = 0 THEN 0 ELSE Pulls - 1)
          /\ Exported(trace) =>
                /\ \E k \in 1..Len(events) : events[k] = "Completed Asset Conversion."
                /\ Pulls >= 5 + Count("iterator"))
    /\ [][PullStep /\ StageRuns(trace') <= StageRuns(trace) + 1]_vars

\* C11 as stated: every pull that yields an event has run exactly one stage.
C11_Original ==
    [][/\ PullStep
       /\ Len(events') = Len(events) + 1 => StageRuns(trace') = StageRuns(trace) + 1]_vars

\* The caller has pulled five events of a run that made the output directory
\* and is two stages into the iterator; nothing is exported
C11_Witness ==
    /\ pc = "converting" /\ Len(events) = 5 /\ Has("makedirs")
    /\ Count("iterator") = 2 /\ outputFilename \notin {None, Unset}
    /\ ~Exported(trace)

-----------------------------------------------------------------------------
(* Properties of _GetOutputFilename (SpecPath) *)

Word(x) == x \notin {DOT, SEP, WS}
EndsWith(s, t) == Len(s) >= Len(t) /\ SubSeq(s, Len(s) - Len(t) + 1, Len(s)) = t
Segment(actor) == IF actor THEN <<"Actor">> ELSE <<"Motions">>
Called == call.fn = "_GetOutputFilename"
Slashed(d) == IF d # <<>> /\ d[Len(d)] = SEP THEN d ELSE d \o <<SEP>>

\* The path the claim describes: the stripped directory ("." when empty) with
\* the segment appended when asked for and not already its last segment,
\* then the stripped name with its extension replaced by .fbx
DescribedPath ==
    LET name == Splitext(Strip(cfg.fbxFilename))[1]
        dir  == IF Strip(cfg.fbxOutputPath) = <<>> THEN <<DOT>> ELSE Strip(cfg.fbxOutputPath)
        dir2 == IF cfg.append /\ Basename(Normpath(dir)) # Segment(isActor)
                THEN Join(dir, Segment(isActor)) ELSE dir
    IN  Join(dir2, name \o <<DOT, "fbx">>)

\* A directory of plain words between single separators
PlainDir(d) ==
    /\ d # <<>> /\ Word(d[1]) /\ Word(d[Len(d)])
    /\ \A i \in 1..Len(d) : d[i] # DOT /\ d[i] # WS
    /\ \A i \in 1..(Len(d) - 1) : (d[i] = SEP) # (d[i + 1] = SEP)

PathResult ==
    LET fn == cfg.fbxFilename
        d  == cfg.fbxOutputPath
        seg == Segment(isActor)
    IN  /\ call.ret # None
        /\ call.ret = DescribedPath
        /\ EndsWith(call.ret, <<DOT, "fbx">>)
        \* a plain name, with or without an extension
        /\ (Len(fn) = 1 /\ Word(fn[1])) => EndsWith(call.ret, <<SEP, fn[1], DOT, "fbx">>)
        /\ (Len(fn) = 3 /\ Word(fn[1]) /\ fn[2] = DOT /\ Word(fn[3])) =>
              EndsWith(call.ret, <<SEP, fn[1], DOT, "fbx">>)
        \* a plain directory: the segment is appended exactly when wanted
        /\ (PlainDir(d) /\ fn = <<"a">>) =>
              call.ret = d \o (IF cfg.append /\ d[Len(d)] # seg[1] THEN <<SEP>> \o seg ELSE <<>>)
                           \o <<SEP, "a", DOT, "fbx">>
        /\ call.made # None => Slashed(call.made) \o Basename(call.ret) = call.ret
        /\ (call.made # None) = ~call.fs.exists
        /\ call.made # None => View(fsys, call.made).exists

\* C6 (as amended): for every file name that is not empty once surrounding
\* whitespace is stripped, when the directory exists or can be made,
\* _GetOutputFilename returns <dir'>/<name>.fbx: name is the stripped name
\* with its extension replaced by .fbx, dir' the stripped directory ("." when
\* empty) with Actor or Motions appended iff appendActorOrMotionPath is set
\* and the last segment of the normalised directory is not that segment.
C6_PathResolution ==
    (Called /\ Strip(cfg.fbxFilename) # <<>> /\ ~Failing(call.fs)) => PathResult

\* C6 as stated: the same for every non-empty file name.
C6_Original ==
    (Called /\ cfg.fbxFilename # <<>> /\ ~Failing(call.fs)) => PathResult

C6_Witness ==
    /\ Called /\ cfg.fbxFilename = <<"a">> /\ ~isActor /\ cfg.append
    /\ cfg.fbxOutputPath = <<"out", SEP, "Motions">>
    /\ ~call.fs.exists
    /\ call.ret = <<"out", SEP, "Motions", SEP, "a", DOT, "fbx">>
    /\ call.made = <<"out", SEP, "Motions">>

-----------------------------------------------------------------------------
(* Properties of texture extraction (SpecTex) *)

\* The directory the images are saved to: <output>/textures, or <output>
\* itself when there is an image to save and _CreateTexturesSubdir cannot make
\* the directory (the failure case its docstring describes)
TexturesDir ==
    IF HasImage(images0) /\ (texcall.tfs.exists \/ texcall.tfs.canCreate)
    THEN Slashed(texcall.out) \o <<"textures">>
    ELSE texcall.out

\* C9: after _UnpackTextures has run, whether it returned or image.save()
\* raised, every image has the filepath and the filepath_raw it had before;
\* every save was made of an image with data, while both paths were
\* <textures directory>/<prefix>_<basename>; an image without data was never
\* touched; a call that returns has saved every image with data once.
C9_SaveAsCopy ==
    texcall.state \in {"returned", "raised"} =>
       LET written == texcall.written
       IN  /\ Len(images) = Len(images0)
           /\ \A i \in 1..Len(images0) :
                 /\ images[i].filepath = images0[i].filepath
                 /\ images[i].filepath_raw = images0[i].filepath_raw
           /\ {written[k].img : k \in 1..Len(written)} \subseteq WithData(images0)
           /\ \A k \in 1..Len(written) :
                 LET target == Slashed(TexturesDir) \o texcall.prefix \o <<"_">>
                                           \o Basename(images0[written[k].img].filepath)
                 IN  written[k].path = target /\ written[k].raw = target
           /\ texcall.state = "returned" =>
                 /\ {written[k].img : k \in 1..Len(written)} = WithData(images0)
                 /\ Len(written) = Cardinality(WithData(images0))

=============================================================================
